---- MODULE Spec2Model ----
(***************************************************************************)
(* Model of main.py: the PubMed pipeline                                   *)
(*   fetch_pubmed_ids -> fetch_paper_details -> extract_paper_data (per    *)
(*   record) -> save_to_csv, wrapped in main's single try/except.          *)
(*                                                                         *)
(* Text that the program inspects character by character (affiliations,    *)
(* author names, the joined columns) is a sequence of one-character        *)
(* strings.  Text that the program only copies (uid, title, pubdate,       *)
(* elocationid, the file name) is an atomic string.  A Python dict is a    *)
(* function whose DOMAIN is the set of keys that are present.              *)
(***************************************************************************)
EXTENDS Integers, Sequences, FiniteSets, TLC

VARIABLES pc, args_file, pubmed_ids, paper_details, extracted_data,
          disk, console, log, requests

vars == <<pc, args_file, pubmed_ids, paper_details, extracted_data,
          disk, console, log, requests>>

----------------------------------------------------------------------------
(* Bounds of the model *)

MaxIds == 2

MaxDetails == 2

MaxAuthors == 2

----------------------------------------------------------------------------
(* Program constants *)

BASE_URL == "esearch.fcgi"

FETCH_URL == "esummary.fcgi"

fieldnames == <<"PubmedID", "Title", "Publication Date",
                "Non-academic Author(s)", "Company Affiliation(s)",
                "Corresponding Author Email">>

\* r"university|institute|college|lab"
AcademicPattern == << <<"u", "n", "i", "v", "e", "r", "s", "i", "t", "y">>,
                      <<"i", "n", "s", "t", "i", "t", "u", "t", "e">>,
                      <<"c", "o", "l", "l", "e", "g", "e">>,
                      <<"l", "a", "b">> >>

\* r"pharma|biotech"
CompanyPattern == << <<"p", "h", "a", "r", "m", "a">>,
                     <<"b", "i", "o", "t", "e", "c", "h">> >>

\* the separator of ", ".join(...)
Separator == <<",", " ">>

----------------------------------------------------------------------------
(* Input alphabet: the texts the upstream service may return *)

UpperAlpha == <<"A", "B", "C", "D", "E", "F", "G", "H", "I", "J", "K", "L", "M",
                "N", "O", "P", "Q", "R", "S", "T", "U", "V", "W", "X", "Y", "Z">>

LowerAlpha == <<"a", "b", "c", "d", "e", "f", "g", "h", "i", "j", "k", "l", "m",
                "n", "o", "p", "q", "r", "s", "t", "u", "v", "w", "x", "y", "z">>

StanfordUniversity == <<"S", "t", "a", "n", "f", "o", "r", "d", " ",
                        "U", "n", "i", "v", "e", "r", "s", "i", "t", "y">>

AbcBiotech == <<"D", "e", "p", "t", ".", " ", "o", "f", " ", "C", "h", "e", "m",
                "i", "s", "t", "r", "y", ",", " ", "A", "B", "C", " ", "B", "i",
                "o", "t", "e", "c", "h", " ", "I", "n", "c", ".">>

AcmeCorp == <<"A", "c", "m", "e", " ", "C", "o", "r", "p">>

PharmaLabUpper == <<"P", "H", "A", "R", "M", "A", " ", "L", "A", "B">>

KingsCollege == <<"K", "i", "n", "g", "s", " ", "C", "o", "l", "l", "e", "g", "e">>

SalkInstitute == <<"S", "a", "l", "k", " ", "I", "n", "s", "t", "i", "t", "u", "t", "e">>

EmptyText == SubSeq(<<"x">>, 1, 0)

Ann == <<"A", "n", "n">>

Bo == <<"B", "o">>

Affiliations == {EmptyText, StanfordUniversity, AbcBiotech, AcmeCorp,
                 PharmaLabUpper, KingsCollege, SalkInstitute}

Names == {Ann, Bo}

\* a dict with no key at all
EmptyDict == [k \in {} |-> "x"]

\* a contributor entry: each of "name" and "affiliation" present or missing
AuthorEntries ==
    {EmptyDict}
    \cup {[name |-> n] : n \in Names}
    \cup {[affiliation |-> a] : a \in Affiliations}
    \cup {[name |-> n, affiliation |-> a] : n \in Names, a \in Affiliations}

AuthorLists == UNION {[1..n -> AuthorEntries] : n \in 0..MaxAuthors}

\* the scalar fields of a raw record, each present or missing
ScalarProfiles ==
    {EmptyDict,
     [uid |-> "9", title |-> "T", pubdate |-> "2020"],
     [uid |-> "1", title |-> "T", pubdate |-> "2020", elocationid |-> "doi: 10.1/x"]}

\* every raw record of the bounded universe (the "authors" key may be missing)
PaperUniverse ==
    ScalarProfiles \cup {s @@ [authors |-> l] : s \in ScalarProfiles, l \in AuthorLists}

\* the raw records the whole-pipeline specification draws from
PipelinePapers ==
    {[uid |-> "1", title |-> "T",
      authors |-> <<[name |-> Ann, affiliation |-> StanfordUniversity]>>],
     [uid |-> "2", title |-> "T", pubdate |-> "2020",
      authors |-> <<[name |-> Bo, affiliation |-> AbcBiotech], [name |-> Ann]>>],
     [title |-> "T"],
     [uid |-> "3", authors |-> <<[affiliation |-> AcmeCorp]>>]}

RecordIdentifiers == {"1", "2", "3"}

\* the idlist of an esearch response
IdLists == UNION {[1..n -> RecordIdentifiers] : n \in 0..MaxIds}

\* the "result" object of an esummary response: key/record pairs in the
\* order of the JSON object, keys unique
DetailMappings(papers) ==
    {d \in UNION {[1..n -> [key : RecordIdentifiers, rec : papers]] : n \in 0..MaxDetails} :
        \A i, j \in 1..Len(d) : d[i].key = d[j].key => i = j}

\* args.file: None, an empty string or a path
FileArgs == {"None", "", "out.csv"}

----------------------------------------------------------------------------
(* dict and regular-expression primitives *)

\* d.get(k, default)
Get(d, k, default) == IF k \in DOMAIN d THEN d[k] ELSE default

\* re.IGNORECASE: the lower-case letter of each upper-case letter
FoldTable ==
    [c \in {UpperAlpha[i] : i \in 1..Len(UpperAlpha)} |->
        LowerAlpha[CHOOSE i \in 1..Len(UpperAlpha) : UpperAlpha[i] = c]]

\* re.IGNORECASE: the case-folded form of one character
Fold(c) == IF c \in DOMAIN FoldTable THEN FoldTable[c] ELSE c

\* the literal alternative alt matches text at position i, ignoring case
MatchAt(alt, text, i) ==
    /\ i + Len(alt) - 1 <= Len(text)
    /\ \A k \in 1..Len(alt) : Fold(text[i + k - 1]) = Fold(alt[k])

\* re.search without re.IGNORECASE
re_search_case_sensitive(pattern, text) ==
    \E i \in 1..(Len(text) + 1) : \E a \in 1..Len(pattern) :
        /\ i + Len(pattern[a]) - 1 <= Len(text)
        /\ \A k \in 1..Len(pattern[a]) : text[i + k - 1] = pattern[a][k]

\* re.search(pattern, text, re.IGNORECASE) is not None, for a pattern that is
\* an alternation of literals
re_search(pattern, text) ==
    \E i \in 1..(Len(text) + 1) : \E a \in 1..Len(pattern) : MatchAt(pattern[a], text, i)

\* sep.join(parts)
RECURSIVE join(_, _)
join(sep, parts) ==
    IF Len(parts) = 0 THEN EmptyText
    ELSE IF Len(parts) = 1 THEN parts[1]
    ELSE parts[1] \o sep \o join(sep, Tail(parts))

----------------------------------------------------------------------------
(* extract_paper_data *)

\* the affiliation text the two comprehensions test: author.get("affiliation", "")
affiliation_of(author) == Get(author, "affiliation", EmptyText)

\* [author["name"] for author in authors if not re.search(academic, ...)]
\* (defined when no selected author lacks the "name" key)
RECURSIVE non_academic_authors(_)
non_academic_authors(authors) ==
    IF Len(authors) = 0 THEN <<>>
    ELSE (IF ~re_search(AcademicPattern, affiliation_of(Head(authors)))
          THEN <<Head(authors)["name"]>>
          ELSE <<>>) \o non_academic_authors(Tail(authors))

\* the company comprehension collecting names instead of affiliations
RECURSIVE company_affiliations_by_name(_)
company_affiliations_by_name(authors) ==
    IF Len(authors) = 0 THEN <<>>
    ELSE (IF re_search(CompanyPattern, affiliation_of(Head(authors)))
          THEN <<Get(Head(authors), "name", EmptyText)>>
          ELSE <<>>) \o company_affiliations_by_name(Tail(authors))

\* [author.get("affiliation", "") for author in authors if re.search(company, ...)]
RECURSIVE company_affiliations(_)
company_affiliations(authors) ==
    IF Len(authors) = 0 THEN <<>>
    ELSE (IF re_search(CompanyPattern, affiliation_of(Head(authors)))
          THEN <<affiliation_of(Head(authors))>>
          ELSE <<>>) \o company_affiliations(Tail(authors))

\* author["name"] raises KeyError: some author passes the filter of the
\* first comprehension and has no "name" key
raises_KeyError(paper) ==
    LET authors == Get(paper, "authors", <<>>)
    IN  \E i \in 1..Len(authors) :
            /\ ~re_search(AcademicPattern, affiliation_of(authors[i]))
            /\ "name" \notin DOMAIN authors[i]

\* the returned row (when no KeyError is raised)
extract_paper_data(paper) ==
    LET authors == Get(paper, "authors", <<>>)
    IN  [f \in {fieldnames[i] : i \in 1..Len(fieldnames)} |->
            CASE f = "PubmedID" -> Get(paper, "uid", "")
              [] f = "Title" -> Get(paper, "title", "")
              [] f = "Publication Date" -> Get(paper, "pubdate", "")
              [] f = "Non-academic Author(s)" ->
                     join(Separator, non_academic_authors(authors))
              [] f = "Company Affiliation(s)" ->
                     join(Separator, company_affiliations(authors))
              [] f = "Corresponding Author Email" -> Get(paper, "elocationid", "")]

----------------------------------------------------------------------------
(* main *)

\* pid in paper_details
pid_in(pid, details) == \E i \in 1..Len(details) : details[i].key = pid

\* paper_details[pid]
lookup(details, pid) == details[CHOOSE i \in 1..Len(details) : details[i].key = pid].rec

\* the comprehension running over the detail mapping instead of the id list
selected_papers_all_details(ids, details) == [i \in 1..Len(details) |-> details[i].rec]

\* the comprehension visiting the id list back to front
RECURSIVE selected_papers_reversed(_, _)
selected_papers_reversed(ids, details) ==
    IF Len(ids) = 0 THEN <<>>
    ELSE selected_papers_reversed(Tail(ids), details)
         \o (IF pid_in(Head(ids), details)
             THEN <<lookup(details, Head(ids))>>
             ELSE <<>>)

\* the papers the comprehension of line 78 passes to extract_paper_data, in
\* the order it visits them
RECURSIVE selected_papers(_, _)
selected_papers(ids, details) ==
    IF Len(ids) = 0 THEN <<>>
    ELSE (IF pid_in(Head(ids), details)
          THEN <<lookup(details, Head(ids))>>
          ELSE <<>>) \o selected_papers(Tail(ids), details)

\* `if filename:`
Truthy(filename) == filename \notin {"None", ""}

\* a handler that logs and raises again
Except_reraises(e) ==
    /\ log' = Append(log, e)
    /\ pc' = "crashed"

\* except Exception as e: logging.error(f"Error occurred: {e}")
Except(e) ==
    /\ log' = Append(log, e)
    /\ pc' = "failed"

\* line 73: pubmed_ids = fetch_pubmed_ids(args.query)
FetchPubmedIds ==
    /\ pc = "start"
    /\ requests' = Append(requests, BASE_URL)
    /\ \/ \E ids \in IdLists :
            /\ pubmed_ids' = ids
            /\ pc' = "searched"
            /\ UNCHANGED log
       \/ /\ Except("RequestException")
          /\ UNCHANGED pubmed_ids
    /\ UNCHANGED <<args_file, paper_details, extracted_data, disk, console>>

\* line 76: paper_details = fetch_paper_details(pubmed_ids)
FetchDetails(papers) ==
    /\ pc = "searched"
    /\ requests' = Append(requests, FETCH_URL)
    /\ \/ \E d \in DetailMappings(papers) :
            /\ paper_details' = d
            /\ pc' = "fetched"
            /\ UNCHANGED log
       \/ /\ Except("RequestException")
          /\ UNCHANGED paper_details
    /\ UNCHANGED <<args_file, pubmed_ids, extracted_data, disk, console>>

FetchPaperDetails == FetchDetails(PipelinePapers)

\* line 78: extracted_data = [extract_paper_data(paper_details[pid]) ...]
Extract ==
    /\ pc = "fetched"
    /\ LET papers == selected_papers(pubmed_ids, paper_details)
       IN  IF \E i \in 1..Len(papers) : raises_KeyError(papers[i])
           THEN /\ Except("KeyError")
                /\ UNCHANGED extracted_data
           ELSE /\ extracted_data' = [i \in 1..Len(papers) |-> extract_paper_data(papers[i])]
                /\ pc' = "extracted"
                /\ UNCHANGED log
    /\ UNCHANGED <<args_file, pubmed_ids, paper_details, disk, console, requests>>

\* the file after open(filename, "w"), writeheader() and the first n rows
Written(header, n) == [content |-> "written", header |-> header,
                       rows |-> SubSeq(extracted_data, 1, n)]

\* line 80: save_to_csv(extracted_data, args.file)
SaveToCsv ==
    /\ pc = "extracted"
    /\ IF Truthy(args_file)
       THEN \/ /\ disk' = Written(TRUE, Len(extracted_data))
               /\ pc' = "done"
               /\ UNCHANGED log
            \/ /\ UNCHANGED disk
               /\ Except("OSError")
            \/ /\ disk' = Written(FALSE, 0)
               /\ Except("OSError")
            \/ \E n \in 0..(Len(extracted_data) - 1) :
                  /\ disk' = Written(TRUE, n)
                  /\ Except("OSError")
       ELSE /\ Except("TypeError")
            /\ UNCHANGED disk
    /\ UNCHANGED <<args_file, pubmed_ids, paper_details, extracted_data, console, requests>>

NoFile == [content |-> "absent", header |-> FALSE, rows |-> <<>>]

OldFile == [content |-> "old", header |-> FALSE, rows |-> <<>>]

Init ==
    /\ pc = "start"
    /\ args_file \in FileArgs
    /\ pubmed_ids = <<>>
    /\ paper_details = <<>>
    /\ extracted_data = <<>>
    /\ disk \in {NoFile, OldFile}
    /\ console = <<>>
    /\ log = <<>>
    /\ requests = <<>>

Next == FetchPubmedIds \/ FetchPaperDetails \/ Extract \/ SaveToCsv

Spec == Init /\ [][Next]_vars

\* the classifier on every raw record of the bounded universe: the run has
\* searched one identifier and fetched one record for it
InitClassify ==
    /\ pc = "fetched"
    /\ args_file = "out.csv"
    /\ pubmed_ids = <<"1">>
    /\ \E p \in PaperUniverse : paper_details = <<[key |-> "1", rec |-> p]>>
    /\ extracted_data = <<>>
    /\ disk = NoFile
    /\ console = <<>>
    /\ log = <<>>
    /\ requests = <<BASE_URL, FETCH_URL>>

NextClassify == Extract

SpecClassify == InitClassify /\ [][NextClassify]_vars

----------------------------------------------------------------------------
(* Vocabulary of the properties *)

\* the identifiers of the search response that have an entry in the detail
\* mapping, in the order of the search response
IsDetailed(pid) == \E k \in 1..Len(paper_details) : paper_details[k].key = pid

DetailedIds == SelectSeq(pubmed_ids, IsDetailed)

RecordOf(pid) == paper_details[CHOOSE k \in 1..Len(paper_details) : paper_details[k].key = pid].rec

Lowercased(text) ==
    [i \in 1..Len(text) |->
        IF \E j \in 1..26 : UpperAlpha[j] = text[i]
        THEN LowerAlpha[CHOOSE j \in 1..26 : UpperAlpha[j] = text[i]]
        ELSE text[i]]

\* sub occurs in text, ignoring the case of text
ContainsIgnoringCase(text, sub) ==
    LET low == Lowercased(text)
    IN  \E i \in 0..(Len(text) - Len(sub)) : SubSeq(low, i + 1, i + Len(sub)) = sub

AffiliationText(author) ==
    IF "affiliation" \in DOMAIN author THEN author.affiliation ELSE EmptyText

DisplayName(author) == IF "name" \in DOMAIN author THEN author.name ELSE <<"?">>

AuthorsOf(paper) == IF "authors" \in DOMAIN paper THEN paper.authors ELSE <<>>

IsAcademic(author) ==
    \E sub \in {<<"u", "n", "i", "v", "e", "r", "s", "i", "t", "y">>,
                <<"i", "n", "s", "t", "i", "t", "u", "t", "e">>,
                <<"c", "o", "l", "l", "e", "g", "e">>,
                <<"l", "a", "b">>} :
        ContainsIgnoringCase(AffiliationText(author), sub)

IsNonAcademic(author) == ~IsAcademic(author)

IsCompany(author) ==
    \E sub \in {<<"p", "h", "a", "r", "m", "a">>, <<"b", "i", "o", "t", "e", "c", "h">>} :
        ContainsIgnoringCase(AffiliationText(author), sub)

\* the texts of parts, in order, with ", " between neighbours
RECURSIVE CommaSeparated(_)
CommaSeparated(parts) ==
    IF Len(parts) = 0 THEN <<>>
    ELSE IF Len(parts) = 1 THEN parts[1]
    ELSE CommaSeparated(SubSeq(parts, 1, Len(parts) - 1)) \o <<",", " ">> \o parts[Len(parts)]

NonAcademicNames(paper) ==
    LET sel == SelectSeq(AuthorsOf(paper), IsNonAcademic)
    IN  CommaSeparated([i \in 1..Len(sel) |-> DisplayName(sel[i])])

CompanyTexts(paper) ==
    LET sel == SelectSeq(AuthorsOf(paper), IsCompany)
    IN  CommaSeparated([i \in 1..Len(sel) |-> AffiliationText(sel[i])])

SearchedIds == {pubmed_ids[i] : i \in 1..Len(pubmed_ids)}

----------------------------------------------------------------------------
(* Properties *)

\* C1: when the search step returns no identifier, no detail-fetch request
\* is sent, and a completed run leaves a table of a header and no rows.
C1_NoFetchForEmptyIds ==
    (pc # "start" /\ pubmed_ids = <<>>) =>
        /\ \A i \in 1..Len(requests) : requests[i] # FETCH_URL
        /\ pc = "done" => (disk.header /\ disk.rows = <<>>)

\* C2: a run that searched at least one identifier and completed wrote at
\* most as many rows as the search returned identifiers, and exactly as many
\* as there are searched identifiers with an entry in the detail mapping; an
\* identifier without an entry gives no row and no error.
C2_RowCount ==
    (pc = "done" /\ Len(pubmed_ids) >= 1) =>
        /\ Len(disk.rows) <= Len(pubmed_ids)
        /\ Len(disk.rows) = Cardinality({i \in 1..Len(pubmed_ids) : IsDetailed(pubmed_ids[i])})
        /\ log = <<>>

C2_Witness ==
    /\ pc = "done"
    /\ Len(pubmed_ids) = 2
    /\ IsDetailed(pubmed_ids[1])
    /\ ~IsDetailed(pubmed_ids[2])
    /\ Len(disk.rows) = 1

\* C3: a failure of the search, the detail fetch or the write is caught once
\* by the orchestrator: exactly one message is logged, nothing is raised
\* further, no later stage has run, and the run has ended (no step follows);
\* a run that has not failed has logged nothing.
C3_FailedState ==
    /\ pc # "crashed"
    /\ pc # "failed" => log = <<>>
    /\ pc = "failed" =>
        /\ Len(log) = 1
        /\ log[1] = "RequestException" =>
              /\ extracted_data = <<>>
              /\ disk.content # "written"
              /\ console = <<>>
              /\ Len(requests) = 1 => paper_details = <<>>
        /\ log[1] = "KeyError" =>
              /\ extracted_data = <<>>
              /\ disk.content # "written"
              /\ console = <<>>

C3_UniformFailurePath ==
    /\ []C3_FailedState
    /\ [][pc = "failed" => UNCHANGED vars]_vars

C3_Witness ==
    /\ pc = "failed"
    /\ Len(pubmed_ids) >= 1
    /\ requests = <<BASE_URL, FETCH_URL>>
    /\ log = <<"RequestException">>

\* C4: a run that ended on the failure path left the destination file either
\* untouched or holding the complete table (header and all rows).
C4_NoPartialOutput ==
    pc = "failed" =>
        \/ disk.content # "written"
        \/ (disk.header /\ disk.rows = extracted_data)

\* C5: the classifier raises no error, whatever the raw record.
C5_ClassifierNeverFails ==
    \A i \in 1..Len(log) : log[i] # "KeyError"

\* C6: the non-academic column of every classified row is the display names,
\* in record order and separated by ", ", of the contributors whose
\* affiliation text (empty when missing) contains none of "university",
\* "institute", "college", "lab", ignoring case.
C6_NonAcademicColumn ==
    pc = "extracted" =>
        /\ Len(extracted_data) = Len(DetailedIds)
        /\ \A j \in 1..Len(extracted_data) :
              extracted_data[j]["Non-academic Author(s)"]
                  = NonAcademicNames(RecordOf(DetailedIds[j]))

C6_Witness ==
    /\ pc = "extracted"
    /\ Len(extracted_data) = 1
    /\ AuthorsOf(RecordOf(DetailedIds[1]))
          = <<[name |-> Ann, affiliation |-> StanfordUniversity], [name |-> Bo]>>
    /\ extracted_data[1]["Non-academic Author(s)"] = Bo

\* C7: the company column of every classified row is the affiliation texts,
\* in record order and separated by ", ", of the contributors whose
\* affiliation text contains "pharma" or "biotech", ignoring case, whether or
\* not the contributor is academic.
C7_CompanyColumn ==
    pc = "extracted" =>
        /\ Len(extracted_data) = Len(DetailedIds)
        /\ \A j \in 1..Len(extracted_data) :
              extracted_data[j]["Company Affiliation(s)"]
                  = CompanyTexts(RecordOf(DetailedIds[j]))

C7_Witness ==
    /\ pc = "extracted"
    /\ Len(extracted_data) = 1
    /\ AuthorsOf(RecordOf(DetailedIds[1]))
          = <<[name |-> Bo, affiliation |-> AbcBiotech], [name |-> Ann]>>
    /\ extracted_data[1]["Company Affiliation(s)"] = AbcBiotech
    /\ extracted_data[1]["Non-academic Author(s)"] = Bo \o <<",", " ">> \o Ann

\* C8: the identifier column of every written row holds an identifier that
\* the search step returned.
C8_IdsFromSearch ==
    \A j \in 1..Len(disk.rows) : disk.rows[j]["PubmedID"] \in SearchedIds

\* C9: without a destination, once search, detail fetch and classification
\* have succeeded the run completes and has printed one rendering per row.
C9_ConsoleMode ==
    ~Truthy(args_file) =>
        /\ pc = "failed" => log[1] \in {"RequestException", "KeyError"}
        /\ pc = "done" => Len(console) = Len(extracted_data)

\* C10: the written rows follow the order of the search response: they are
\* the rows of detailed identifiers taken at increasing positions of the
\* search response, whatever the key order of the detail mapping.
C10_SearchOrder ==
    disk.content = "written" =>
        \E f \in [1..Len(disk.rows) -> 1..Len(pubmed_ids)] :
            /\ \A j, k \in 1..Len(disk.rows) : j < k => f[j] < f[k]
            /\ \A j \in 1..Len(disk.rows) :
                  /\ IsDetailed(pubmed_ids[f[j]])
                  /\ disk.rows[j] = extract_paper_data(RecordOf(pubmed_ids[f[j]]))

C10_Witness ==
    /\ pc = "done"
    /\ Len(disk.rows) = 2
    /\ disk.rows[1] # disk.rows[2]
    /\ Len(paper_details) = 2
    /\ paper_details[1].key = pubmed_ids[2]
    /\ paper_details[2].key = pubmed_ids[1]

====
